---- MODULE Spec2Model ----
(***************************************************************************)
(* Dil-fridge slow control: the polling services slow_control_v3.py (LS218 *)
(* temperature bridge + MKS2000 pressure gauges -> MySQL) and              *)
(* slow_control_v2.py (LS370 + LS218 -> CSV + MySQL).                      *)
(*                                                                         *)
(* Python values: None is the empty tuple <<>>, a float f is <<m>> with m  *)
(* the value in thousandths.  Text is modelled after tokenisation: an      *)
(* LS218 response is the sequence response.split(','), an MKS2000 line is  *)
(* the sequence resp.split().                                              *)
(***************************************************************************)
EXTENDS Integers, Sequences, FiniteSets, TLC

\* ------------------------------------------------------------------ bounds
\* Poll cycles the model follows before the loop is cut off.
MaxCycles == 2
\* Pressure gauges handed to main() (the deployment lists three ports).
NumMKS == 2
\* Longest LS218 batch response offered by the environment (KRDG? 0 answers 8).
MaxRespLen == 8
\* Most whitespace-separated tokens of a gauge line given to the parser alone.
MaxTokens == 3

\* ----------------------------------------------------------- configuration
CHANNELS == <<1, 2, 5, 6, 7>>
ChannelSet == {CHANNELS[i] : i \in DOMAIN CHANNELS}
Gauges == 1..NumMKS

None == <<>>
Some(v) == <<v>>

\* Python dict.get(k): the value, or None when the key is missing.
Get(d, k) == IF k \in DOMAIN d THEN d[k] ELSE None

\* Row keys: "timestamp", f"LS218_ch{ch}", f"MKS{i}_g1".
TimestampKey == <<"timestamp", 0>>
LSKey(ch) == <<"LS218_ch", ch>>
MKSKey(i) == <<"MKS_g1", i>>
LS218Keys == {LSKey(ch) : ch \in ChannelSet}
MKSKeys == {MKSKey(i) : i \in Gauges}
RowKeys == {TimestampKey} \cup LS218Keys \cup MKSKeys

\* ------------------------------------------------------------------ float()
\* float(text) on the numeric texts the environment can send; any other text
\* raises ValueError.
FloatTable ==
  [t \in {"+12.345", "+50.678", "-1.000", "+0.0", "+4.200", "+77.350", "+295.100",
          "+3.141", "3.7e+0", "340.2e+0"} |->
     CASE t = "+12.345" -> 12345
       [] t = "+50.678" -> 50678
       [] t = "-1.000" -> -1000
       [] t = "+0.0" -> 0
       [] t = "+4.200" -> 4200
       [] t = "+77.350" -> 77350
       [] t = "+295.100" -> 295100
       [] t = "+3.141" -> 3141
       [] t = "3.7e+0" -> 3700
       [] t = "340.2e+0" -> 340200]
FloatOk(t) == t \in DOMAIN FloatTable
Float(t) == FloatTable[t]

\* ------------------------------------------------------------ class LS218
\* What the bus does when connect() runs: the address is listed and the
\* instrument answers *IDN? with a string containing "218" ("ok"), the address
\* is not listed ("absent"), open_resource raises ("open_error"), the identity
\* query times out ("idn_error"), or the identity lacks "218" ("idn_mismatch").
ConnectEnvs == {"ok", "absent", "open_error", "idn_error", "idn_mismatch"}

\* Exception classes the libraries raise (all subclasses of Exception), and
\* the classes each except clause of the code catches.
ExceptException == {"VisaIOError", "ValueError", "SerialException", "Error"}
ExceptVisaValue == {"VisaIOError", "ValueError"}
\* The exception that leaves a try statement: exc when no clause catches it.
Escapes(exc, handler) == IF exc \in handler THEN "none" ELSE exc

\* The try block of LS218.connect: the exception it raises, "none" if none.
LS218_connect_try(env) ==
  CASE env = "ok" -> "none"
    [] env \in {"absent", "open_error", "idn_error"} -> "VisaIOError"
    [] env = "idn_mismatch" -> "ValueError"

\* Mutant of LS218_connect_except: "except VisaIOError", as LSInstr has it.
LS218_connect_except_visa_only == {"VisaIOError"}

\* The classes LS218.connect catches: "except Exception".
LS218_connect_except == ExceptException

\* LS218.connect: open_resource assigns conn; a caught failure sets it to None.
LS218_connect(env) ==
  LET exc == LS218_connect_try(env)
      raised == Escapes(exc, LS218_connect_except)
  IN [conn |-> IF exc = "none" \/ (raised # "none" /\ env \in {"idn_error", "idn_mismatch"})
               THEN "open" ELSE "None",
      raised |-> raised]

\* The batch responses the environment offers, already split on ',':
\* n numeric texts (the eight positions of a full answer carry eight different
\* texts), the empty response "", and a full-length response whose second
\* field is garbage.
NumTexts ==
  <<"+12.345", "+50.678", "-1.000", "+0.0", "+4.200", "+77.350", "+295.100", "+3.141">>
Resp(n) == [i \in 1..n |-> NumTexts[((i - 1) % Len(NumTexts)) + 1]]
LS218Responses ==
  {Resp(n) : n \in 1..MaxRespLen} \cup {<<"">>} \cup
  {[Resp(MaxRespLen) EXCEPT ![2] = "ERR"]}

\* What the bus does during the try block of get_all_temps: conn.clear()
\* raises VisaIOError, conn.query raises VisaIOError (timeout, transport
\* error), or query returns a response.
LS218ReadEnvs ==
  {[kind |-> k, tokens |-> <<>>] : k \in {"clear_error", "query_error"}} \cup
  {[kind |-> "response", tokens |-> r] : r \in LS218Responses}

\* {ch: None for ch in CHANNELS}
AllNone == [ch \in ChannelSet |-> None]

\* Mutant of ReadingsDict: {i: readings[i] ...}, channels numbered from 0.
ReadingsDict_zero_based(readings) ==
  [c \in 0..(Len(readings) - 1) |-> Some(readings[c + 1])]

\* {i + 1: readings[i] for i in range(len(readings))}, readings 0-based.
ReadingsDict(readings) ==
  [c \in {i + 1 : i \in 0..(Len(readings) - 1)} |-> Some(readings[(c - 1) + 1])]

\* Mutant of LS218_read_failed: the except clause forgets "self.conn = None".
LS218_read_failed_keep_conn(exc, queries) ==
  [conn |-> "open", temps |-> AllNone, queries |-> queries, outcome |-> exc,
   raised |-> Escapes(exc, ExceptVisaValue)]

\* The except clause of get_all_temps, "except (VisaIOError, ValueError)":
\* conn = None, all channels None.  An exception of another class leaves
\* the call.
LS218_read_failed(exc, queries) ==
  LET raised == Escapes(exc, ExceptVisaValue)
  IN [conn |-> IF raised = "none" THEN "None" ELSE "open", temps |-> AllNone,
      queries |-> queries, outcome |-> exc, raised |-> raised]

\* The try block of get_all_temps on an open connection, with its except
\* clause.  queries counts the KRDG? queries sent.
LS218_try_read(renv) ==
  IF renv.kind = "clear_error" THEN LS218_read_failed("VisaIOError", 0)
  ELSE IF renv.kind = "query_error" THEN LS218_read_failed("VisaIOError", 1)
  ELSE IF \E i \in DOMAIN renv.tokens : ~FloatOk(renv.tokens[i])
       THEN LS218_read_failed("ValueError", 1)
  ELSE [conn |-> "open",
        temps |-> ReadingsDict([i \in DOMAIN renv.tokens |-> Float(renv.tokens[i])]),
        queries |-> 1, outcome |-> "ok", raised |-> "none"]

\* Connect attempts get_all_temps makes when it finds conn as given.
LS218_connects(conn) == IF conn = "None" THEN 1 ELSE 0

\* LS218.get_all_temps.  Returns the driver's conn afterwards, the returned
\* dictionary, and what the call did (connect attempts, queries, outcome).
LS218_get_all_temps(conn, cenv, renv) ==
  LET c1 == IF conn = "None" THEN LS218_connect(cenv)
            ELSE [conn |-> conn, raised |-> "none"]
      n == LS218_connects(conn)
  IN IF c1.raised # "none" \/ c1.conn = "None"
     THEN [conn |-> c1.conn, temps |-> AllNone, queries |-> 0,
           outcome |-> "connect_failed", raised |-> c1.raised, connects |-> n,
           started |-> conn, tokens |-> <<>>]
     ELSE LS218_try_read(renv) @@
          [connects |-> n, started |-> conn, tokens |-> renv.tokens]

\* ---------------------------------------------------------- class MKS2000
\* A response line is the sequence of its whitespace-separated tokens, and a
\* token a sequence of glyphs: a dash ("-" or one of the six non-ASCII dash
\* code points, written by code point), a status word, or a run of text
\* holding digits.
bad_minus == {"u2212", "u2013", "u2014", "u2012", "u2010", "u2011"}
DigitGlyphs == {"3.7e+0", "340.2e+0", "1.2.3"}

\* Mutant of NormaliseToken: only the ASCII hyphen counts as a minus.
NormaliseToken_ascii_only(tok) == tok

\* resp.replace(bm, '-') for every bm in bad_minus.
NormaliseToken(tok) == [i \in DOMAIN tok |-> IF tok[i] \in bad_minus THEN "-" ELSE tok[i]]
Normalise(line) == [i \in DOMAIN line |-> NormaliseToken(line[i])]

\* any(ch.isdigit() for ch in p)
HasDigit(tok) == \E i \in DOMAIN tok : tok[i] \in DigitGlyphs

\* s.startswith('-') of a token, and of the stripped line.
StartsWithMinus(tok) == Len(tok) > 0 /\ tok[1] = "-"
LineStartsWithMinus(line) == Len(line) > 0 /\ StartsWithMinus(line[1])

\* The first token holding a digit (0 when there is none).
FirstNumeric(parts) ==
  IF \E i \in DOMAIN parts : HasDigit(parts[i])
  THEN CHOOSE i \in DOMAIN parts :
         HasDigit(parts[i]) /\ \A j \in 1..(i - 1) : ~HasDigit(parts[j])
  ELSE 0

\* float(numeric): one numeric text, with at most one '-' before it.
TokenFloatOk(tok) ==
  \/ Len(tok) = 1 /\ FloatOk(tok[1])
  \/ Len(tok) = 2 /\ tok[1] = "-" /\ FloatOk(tok[2])
TokenFloat(tok) == IF Len(tok) = 1 THEN Float(tok[1]) ELSE 0 - Float(tok[2])

\* Lines 145-180 of get_pressures on a non-empty line: the pressure, or None
\* with the reason.
ParsePressure(line) ==
  LET resp == Normalise(line)
      k == FirstNumeric(resp)
      numeric == IF LineStartsWithMinus(resp) /\ ~StartsWithMinus(resp[k])
                 THEN <<"-">> \o resp[k] ELSE resp[k]
  IN IF k = 0 THEN [value |-> None, outcome |-> "no_digit"]
     ELSE IF ~TokenFloatOk(numeric) THEN [value |-> None, outcome |-> "unparseable"]
     ELSE [value |-> Some(TokenFloat(numeric)), outcome |-> "ok"]

\* The lines the gauges send in the poll loop (<<>> is the empty line of a
\* read timeout).
MKSLines ==
  { <<>>,
    << <<"-">>, <<"3.7e+0">>, <<"Off">> >>,
    << <<"Off">>, <<"340.2e+0">> >>,
    << <<"Off">>, <<"Off">> >>,
    << <<"u2212", "3.7e+0">>, <<"Off">> >>,
    << <<"Off">>, <<"1.2.3">> >> }

\* The token alphabet for the parser taken alone: a dash of any of the seven
\* kinds standing alone, a status word, a numeric text, a text with digits
\* that is no number, and a numeric text with a dash attached.
SignTokens == {<<g>> : g \in {"-"} \cup bad_minus}
ParseTokens ==
  SignTokens \cup
  {<<"Off">>, <<"3.7e+0">>, <<"340.2e+0">>, <<"1.2.3">>, <<"-", "3.7e+0">>,
   <<"u2212", "3.7e+0">>}
ParseLines == UNION {[1..n -> ParseTokens] : n \in 0..MaxTokens}

\* What the port does during the try block of get_pressures:
\* reset_input_buffer raises, write or readline raises, or readline returns.
MKSReadEnvs ==
  {[kind |-> k, line |-> <<>>] : k \in {"reset_error", "io_error"}} \cup
  {[kind |-> "line", line |-> l] : l \in MKSLines}

\* serial.Serial(port, ...) opens the port ("ok") or raises.
SerialEnvs == {"ok", "no_port"}

\* MKS2000.connect: "except Exception" catches the SerialException of a
\* port that cannot be opened and sets ser to None.
MKS2000_connect(env) ==
  LET exc == IF env = "ok" THEN "none" ELSE "SerialException"
      raised == Escapes(exc, ExceptException)
  IN [ser |-> IF exc = "none" THEN "open" ELSE "None", raised |-> raised]

\* The outer except clause of get_pressures, "except Exception": ser = None,
\* return None.
MKS2000_read_error(exc, queries) ==
  LET raised == Escapes(exc, ExceptException)
  IN [ser |-> IF raised = "none" THEN "None" ELSE "open", value |-> None,
      queries |-> queries, outcome |-> exc, raised |-> raised]

\* An early "return None" inside the try block (empty line, no token with a
\* digit, float() failed and was caught by the inner except): ser is left as
\* it is.
MKS2000_no_value(outcome) ==
  [ser |-> "open", value |-> None, queries |-> 1, outcome |-> outcome,
   raised |-> "none"]

\* The try block of get_pressures on an open port.  queries counts the b"p"
\* commands written.
MKS2000_try_read(renv) ==
  IF renv.kind = "reset_error" THEN MKS2000_read_error("SerialException", 0)
  ELSE IF renv.kind = "io_error" THEN MKS2000_read_error("SerialException", 1)
  ELSE IF renv.line = <<>> THEN MKS2000_no_value("empty")
  ELSE LET p == ParsePressure(renv.line)
       IN IF p.outcome = "ok"
          THEN [ser |-> "open", value |-> p.value, queries |-> 1, outcome |-> "ok",
                raised |-> "none"]
          ELSE MKS2000_no_value(p.outcome)

\* Mutant of MKS2000_connects: a second connect() when the first one failed.
MKS2000_connects_retry(ser) == IF ser # "open" THEN 2 ELSE 0

\* Connect attempts get_pressures makes when it finds ser as given
\* (not self.ser or not self.ser.is_open).
MKS2000_connects(ser) == IF ser # "open" THEN 1 ELSE 0

\* MKS2000.get_pressures
MKS2000_get_pressures(ser, cenv, renv) ==
  LET s1 == IF ser # "open" THEN MKS2000_connect(cenv)
            ELSE [ser |-> ser, raised |-> "none"]
      n == MKS2000_connects(ser)
  IN IF s1.raised # "none" \/ s1.ser = "None"
     THEN [ser |-> s1.ser, value |-> None, queries |-> 0,
           outcome |-> "connect_failed", raised |-> s1.raised, connects |-> n,
           started |-> ser]
     ELSE MKS2000_try_read(renv) @@ [connects |-> n, started |-> ser]

\* ------------------------------------------------------ slow_control_v3 state
VARIABLES
  pc,            \* where main() / __main__ stands
  cycle,         \* poll cycles started; the cycle's timestamp (datetime.now)
  row,           \* main()'s row dictionary
  lsConn,        \* LS218.conn: "None" or "open"
  mksSer,        \* MKS2000.ser per gauge: "None", "open" or "closed"
  mksIdx,        \* the gauge the for loop of main() is at
  dbConn,        \* MySQLLogger.conn: "None", "conn" (open) or "lost" (dropped)
  dbCursor,      \* MySQLLogger.cursor: "None", "current" (of conn) or "stale"
  dbCaller,      \* who called MySQLLogger.connect: "ctor" or "insert"
  txn,           \* rows executed and not committed on the sink's connection
  dbTable,       \* timestamps of the rows committed to dilfridge_log
  executeLog,    \* timestamps of the rows handed to cursor.execute, in order
  lsCall,        \* what get_all_temps did in the read phase of the cycle under way
  lsAbsentRun,   \* consecutive cycles, up to this one, whose LS218 connect failed
  mksCall,       \* what the last get_pressures call of that read phase did
  connFailed,    \* row keys of the drivers whose connect check failed this cycle
  insertErr,     \* execute or commit raised in this cycle's insert
  okOutcomes,    \* what main() observed from inserts that committed
  failOutcomes,  \* what main() observed from inserts that failed
  insertReturned,\* the last cycle whose insert call returned to main()
  stopCause,     \* "running", "KeyboardInterrupt" or "exception"
  interruptedAt, \* pc when KeyboardInterrupt arrived
  lsCtor,        \* what the construction LS218(LS218_ADDRESS) did
  trace,         \* the calls main() has made in the cycle under way, in order
  dbPeak         \* most database connections open at one moment of the cycle
                 \* under way (of the construction, before the first cycle)

v3vars == <<pc, cycle, row, lsConn, mksSer, mksIdx, dbConn, dbCursor, dbCaller, txn,
            dbTable, executeLog, lsCall, lsAbsentRun, mksCall, connFailed, insertErr,
            okOutcomes, failOutcomes, insertReturned, stopCause, interruptedAt,
            lsCtor, trace, dbPeak>>

\* State of slow_control_v2.py (the script is modelled further down).
VARIABLES
  pc2,        \* where the script stands
  cycle2,     \* poll cycles started; the cycle's timestamp
  row2,       \* the poll loop's row dictionary
  conn370,    \* ls370.conn: "None" or "open"
  conn218,    \* ls218.conn: "None" or "open"
  db2,        \* the module's MySQL connection db: "None", "open", "lost", "closed"
  lastData2,  \* the data tuple of the INSERT of this cycle's save_to_db
  stopCause2, \* "running", "KeyboardInterrupt", "SystemExit" or "exception"
  present2,   \* the instruments listed on the GPIB bus and answering
  ctor2       \* what the last LSInstr(...) construction did

v2vars == <<pc2, cycle2, row2, conn370, conn218, db2, lastData2, stopCause2,
            present2, ctor2>>

\* MKS2000.get_pressures taken alone, on one line.
VARIABLES
  parseLine,  \* the line readline() returns, split into tokens
  parseOut    \* what get_pressures did with it

pvars == <<parseLine, parseOut>>

NoLSCall ==
  [conn |-> "None", temps |-> AllNone, queries |-> 0, outcome |-> "none",
   raised |-> "none", connects |-> 0, started |-> "None", tokens |-> <<>>]
NoMKSCall ==
  [ser |-> "None", value |-> None, queries |-> 0, outcome |-> "none",
   raised |-> "none", connects |-> 0, started |-> "None", gauge |-> 0]

NoCtor == [env |-> "none", conn |-> "None", raised |-> "none"]

\* The calls of one cycle of main(), as trace records them.
EvTimestamp == <<"timestamp", 0>>
EvLS218 == <<"get_all_temps", 0>>
EvMKS(i) == <<"get_pressures", i>>
EvInsert == <<"insert", 0>>
EvSleep == <<"sleep", 0>>

\* __main__ line 263 has built the gauges (each constructor ran connect());
\* main() is about to construct the LS218.
InitV3 ==
  /\ pc = "ctor_ls218"
  /\ cycle = 0
  /\ row = <<>>
  /\ lsConn = "None"
  /\ mksSer \in [Gauges -> {MKS2000_connect(e).ser : e \in SerialEnvs}]
  /\ mksIdx = 1
  /\ dbConn = "None"
  /\ dbCursor = "None"
  /\ dbCaller = "ctor"
  /\ txn = <<>>
  /\ dbTable = <<>>
  /\ executeLog = <<>>
  /\ lsCall = NoLSCall
  /\ lsAbsentRun = 0
  /\ mksCall = NoMKSCall
  /\ connFailed = {}
  /\ insertErr = FALSE
  /\ okOutcomes = {}
  /\ failOutcomes = {}
  /\ insertReturned = 0
  /\ stopCause = "running"
  /\ interruptedAt = "none"
  /\ lsCtor = NoCtor
  /\ trace = <<>>
  /\ dbPeak = 0

\* ------------------------------------------------------- class MySQLLogger
\* mysql.connector.connect and conn.cursor(): both succeed, connect raises
\* Error, or cursor() raises Error on the new connection (which it does when
\* that connection is no longer available).
DbConnectEnvs == {"ok", "connect_error", "cursor_error"}

Max(a, b) == IF a >= b THEN a ELSE b

\* Connections open at the moment mysql.connector.connect returns a new one:
\* the new one, and the one self.conn still refers to if that is open (the
\* assignment to self.conn comes after the call; nothing closes the old one).
OpenAtConnect(conn) == IF conn = "conn" THEN 2 ELSE 1

\* Mutant of ConnectBreaks: connect() returns as soon as self.conn is assigned.
ConnectBreaks_on_conn(env) == env # "connect_error"

\* The while loop of MySQLLogger.connect reaches "break" only when both
\* mysql.connector.connect and conn.cursor() returned.
ConnectBreaks(env) == env = "ok"

\* One pass of the while loop of MySQLLogger.connect up to break / except.
MySQLLogger_connect_pass(env) ==
  /\ dbConn' = CASE env = "ok" -> "conn"
                 [] env = "connect_error" -> dbConn
                 [] OTHER -> "lost"
  /\ dbPeak' = IF env = "connect_error" THEN dbPeak ELSE Max(dbPeak, OpenAtConnect(dbConn))
  /\ txn' = IF env = "connect_error" THEN txn ELSE <<>>
  /\ dbCursor' = CASE env = "ok" -> "current"
                   [] env = "connect_error" -> dbCursor
                   [] OTHER -> IF dbCursor = "None" THEN "None" ELSE "stale"

\* What main() observes from db.insert(row): insert has no return statement
\* and its except clause swallows the Error, so the call evaluates to None
\* whether the row was committed or not.
MySQLLogger_insert_result(failed) == "None"

\* Mutant of AfterConnect: insert runs the statement again after reconnecting.
AfterConnect_retry == IF dbCaller = "ctor" THEN "loop_top" ELSE "insert"

\* Where control goes when MySQLLogger.connect breaks out of its loop.
AfterConnect == IF dbCaller = "ctor" THEN "loop_top" ELSE "sleep"

\* ---------------------------------------------------------------- main()
\* Mutant of RowWithTemps: the v2 way, "if val is not None: row[key] = val".
RowWithTemps_skip_none(r, all_temps) ==
  [k \in {LSKey(ch) : ch \in {c \in ChannelSet : Get(all_temps, c) # None}} |->
     Get(all_temps, k[2])] @@ r

\* Mutant of RowWithTemps: the k-th configured channel takes the k-th value.
RowWithTemps_by_rank(r, all_temps) ==
  [k \in {LSKey(ch) : ch \in ChannelSet} |->
     Get(all_temps, CHOOSE i \in DOMAIN CHANNELS : CHANNELS[i] = k[2])] @@ r

\* for ch in CHANNELS: row[f"LS218_ch{ch}"] = all_temps.get(ch)
RowWithTemps(r, all_temps) ==
  [k \in {LSKey(ch) : ch \in ChannelSet} |-> Get(all_temps, k[2])] @@ r

\* row[f"MKS{i}_g1"] = mks.get_pressures()
RowWithPressure(r, i, value) == (MKSKey(i) :> value) @@ r

\* The finally clause of __main__: close every gauge's open serial port.
Finally(ser) == [i \in Gauges |-> IF ser[i] = "open" THEN "closed" ELSE ser[i]]

\* An exception other than KeyboardInterrupt leaves main(): __main__'s finally
\* clause closes the gauges' ports and the interpreter ends with a traceback.
PcAfter(raised, next) == IF raised = "none" THEN next ELSE "exited"
CauseAfter(raised) == IF raised = "none" THEN stopCause ELSE "exception"

\* ls218 = LS218(LS218_ADDRESS): conn = None, then connect().
LS218_init ==
  /\ pc = "ctor_ls218"
  /\ \E env \in ConnectEnvs :
       LET r == LS218_connect(env)
       IN /\ lsConn' = r.conn
          /\ lsCtor' = [env |-> env, conn |-> r.conn, raised |-> r.raised]
          /\ pc' = PcAfter(r.raised, "ctor_db")
          /\ stopCause' = CauseAfter(r.raised)
          /\ mksSer' = IF r.raised = "none" THEN mksSer ELSE Finally(mksSer)
  /\ UNCHANGED <<cycle, row, mksIdx, dbConn, dbCursor, dbCaller, txn, dbTable,
                 executeLog, lsCall, lsAbsentRun, mksCall, connFailed, insertErr,
                 okOutcomes, failOutcomes, insertReturned, interruptedAt, trace, dbPeak>>
  /\ UNCHANGED <<v2vars, pvars>>

\* db = MySQLLogger(MYSQL_CONFIG): conn = cursor = None, then connect().
MySQLLogger_init ==
  /\ pc = "ctor_db"
  /\ dbConn' = "None"
  /\ dbCursor' = "None"
  /\ dbCaller' = "ctor"
  /\ dbPeak' = 0
  /\ pc' = "db_connect"
  /\ UNCHANGED <<cycle, row, lsConn, mksSer, mksIdx, txn, dbTable, executeLog, lsCall,
                 lsAbsentRun, mksCall, connFailed, insertErr, okOutcomes, failOutcomes,
                 insertReturned, stopCause, interruptedAt, lsCtor, trace>>
  /\ UNCHANGED <<v2vars, pvars>>

\* MySQLLogger.connect, one pass of "while True": break on success (and
\* return to the caller), otherwise go to time.sleep(5).
MySQLLogger_connect ==
  /\ pc = "db_connect"
  /\ \E env \in DbConnectEnvs :
       /\ MySQLLogger_connect_pass(env)
       /\ pc' = IF ConnectBreaks(env) THEN AfterConnect ELSE "db_backoff"
       /\ insertReturned' = IF ConnectBreaks(env) /\ dbCaller = "insert" THEN cycle
                            ELSE insertReturned
       /\ failOutcomes' = IF ConnectBreaks(env) /\ dbCaller = "insert"
                          THEN failOutcomes \cup {MySQLLogger_insert_result(TRUE)}
                          ELSE failOutcomes
  /\ UNCHANGED <<cycle, row, lsConn, mksSer, mksIdx, dbCaller, dbTable, executeLog,
                 lsCall, lsAbsentRun, mksCall, connFailed, insertErr, okOutcomes, stopCause,
                 interruptedAt, lsCtor, trace>>
  /\ UNCHANGED <<v2vars, pvars>>

\* time.sleep(5) in the except clause of MySQLLogger.connect, then loop.
MySQLLogger_backoff ==
  /\ pc = "db_backoff"
  /\ pc' = "db_connect"
  /\ UNCHANGED <<cycle, row, lsConn, mksSer, mksIdx, dbConn, dbCursor, dbCaller, txn,
                 dbTable, executeLog, lsCall, lsAbsentRun, mksCall, connFailed, insertErr,
                 okOutcomes, failOutcomes, insertReturned, stopCause, interruptedAt,
                 lsCtor, trace, dbPeak>>
  /\ UNCHANGED <<v2vars, pvars>>

\* while True: timestamp = datetime.now(timezone.utc); row = {"timestamp": ...}
LoopTop ==
  /\ pc = "loop_top"
  /\ cycle < MaxCycles
  /\ cycle' = cycle + 1
  /\ row' = (TimestampKey :> Some(cycle + 1))
  /\ connFailed' = {}
  /\ insertErr' = FALSE
  /\ lsCtor' = NoCtor
  /\ trace' = <<EvTimestamp>>
  /\ dbPeak' = 1
  /\ pc' = "read_ls218"
  /\ UNCHANGED <<lsConn, mksSer, mksIdx, dbConn, dbCursor, dbCaller, txn, dbTable,
                 executeLog, lsCall, lsAbsentRun, mksCall, okOutcomes, failOutcomes,
                 insertReturned, stopCause, interruptedAt>>
  /\ UNCHANGED <<v2vars, pvars>>

\* What the bus does during one get_all_temps call that finds conn as given:
\* the connect environment counts only when the call connects, the read
\* environment only when the try block is reached.
LS218CallEnvs(conn) ==
  {e \in ConnectEnvs \X LS218ReadEnvs :
     /\ conn = "open" => e[1] = "ok"
     /\ (conn # "open" /\ e[1] # "ok") => e[2].kind = "clear_error"}

\* all_temps = ls218.get_all_temps(), then the loop over CHANNELS.
ReadLS218 ==
  /\ pc = "read_ls218"
  /\ \E e \in LS218CallEnvs(lsConn) :
       LET cenv == e[1]
           renv == e[2]
           r == LS218_get_all_temps(lsConn, cenv, renv)
       IN /\ lsConn' = r.conn
          /\ lsCall' = r
          /\ row' = IF r.raised = "none" THEN RowWithTemps(row, r.temps) ELSE row
          /\ connFailed' = IF r.outcome = "connect_failed"
                           THEN connFailed \cup LS218Keys ELSE connFailed
          /\ lsAbsentRun' = IF r.outcome = "connect_failed" THEN lsAbsentRun + 1 ELSE 0
          /\ pc' = PcAfter(r.raised, "read_mks")
          /\ stopCause' = CauseAfter(r.raised)
          /\ mksSer' = IF r.raised = "none" THEN mksSer ELSE Finally(mksSer)
  /\ mksIdx' = 1
  /\ trace' = Append(trace, EvLS218)
  /\ UNCHANGED <<cycle, dbConn, dbCursor, dbCaller, txn, dbTable, executeLog,
                 mksCall, insertErr, okOutcomes, failOutcomes, insertReturned,
                 interruptedAt, lsCtor, dbPeak>>
  /\ UNCHANGED <<v2vars, pvars>>

\* What the port does during one get_pressures call that finds ser as given:
\* the open environment counts only when the call connects, the read
\* environment only when the try block is reached.
MKSCallEnvs(ser) ==
  {e \in SerialEnvs \X MKSReadEnvs :
     /\ ser = "open" => e[1] = "ok"
     /\ (ser # "open" /\ e[1] # "ok") => e[2].kind = "reset_error"}

\* Mutant of AfterGauge: the row is handed to insert after the first gauge.
AfterGauge_first_only(i) == "insert"

\* Where main() goes after the pass of the gauge loop for gauge i: the next
\* gauge, or the logging line and db.insert(row) once the list is exhausted.
AfterGauge(i) == IF i < NumMKS THEN "read_mks" ELSE "insert"

\* One pass of "for i, mks in enumerate(mks_devices, start=1)"; after the last
\* gauge the row is logged and handed to db.insert.
ReadMKS ==
  /\ pc = "read_mks"
  /\ \E e \in MKSCallEnvs(mksSer[mksIdx]) :
       LET cenv == e[1]
           renv == e[2]
           r == MKS2000_get_pressures(mksSer[mksIdx], cenv, renv)
           ser == [mksSer EXCEPT ![mksIdx] = r.ser]
       IN /\ mksSer' = IF r.raised = "none" THEN ser ELSE Finally(ser)
          /\ mksCall' = r @@ [gauge |-> mksIdx]
          /\ row' = IF r.raised = "none" THEN RowWithPressure(row, mksIdx, r.value)
                    ELSE row
          /\ connFailed' = IF r.outcome = "connect_failed"
                           THEN connFailed \cup {MKSKey(mksIdx)} ELSE connFailed
          /\ pc' = PcAfter(r.raised, AfterGauge(mksIdx))
          /\ stopCause' = CauseAfter(r.raised)
  /\ mksIdx' = IF mksIdx < NumMKS THEN mksIdx + 1 ELSE mksIdx
  /\ trace' = Append(trace, EvMKS(mksIdx))
  /\ UNCHANGED <<cycle, lsConn, dbConn, dbCursor, dbCaller, txn, dbTable, executeLog,
                 lsCall, lsAbsentRun, insertErr, okOutcomes, failOutcomes,
                 insertReturned, interruptedAt, lsCtor, dbPeak>>
  /\ UNCHANGED <<v2vars, pvars>>

\* db.insert(row) up to cursor.execute(sql, values): the statement is accepted
\* into the connection's transaction, or execute raises Error and the except
\* clause calls self.connect().  The read phase is over: its call records are
\* reset.  The Error is the server rejecting the statement ("error": the
\* connection stays open) or the connection having dropped ("lost").
SqlEnvs == {"ok", "error", "lost"}
InsertExecute ==
  /\ pc = "insert"
  /\ executeLog' = Append(executeLog, row[TimestampKey][1])
  /\ \E env \in SqlEnvs :
       /\ txn' = IF env = "ok" THEN Append(txn, row[TimestampKey][1]) ELSE txn
       /\ insertErr' = (env # "ok")
       /\ dbConn' = IF env = "lost" THEN "lost" ELSE dbConn
       /\ dbCaller' = IF env = "ok" THEN dbCaller ELSE "insert"
       /\ pc' = IF env = "ok" THEN "commit" ELSE "db_connect"
  /\ lsCall' = NoLSCall
  /\ mksCall' = NoMKSCall
  /\ trace' = Append(trace, EvInsert)
  /\ UNCHANGED <<cycle, row, lsConn, mksSer, mksIdx, dbCursor, dbTable,
                 lsAbsentRun, connFailed, okOutcomes, failOutcomes, insertReturned,
                 stopCause, interruptedAt, lsCtor, dbPeak>>
  /\ UNCHANGED <<v2vars, pvars>>

\* self.conn.commit(): the transaction is committed and insert returns, or
\* commit raises Error and the except clause calls self.connect(): the server
\* refused the commit on a connection that stays open ("error_rolled_back"),
\* or the connection dropped before ("lost_before_commit") or after
\* ("error_after_commit") the server made the transaction durable.
CommitEnvs == {"ok", "error_rolled_back", "lost_before_commit", "error_after_commit"}
InsertCommit ==
  /\ pc = "commit"
  /\ \E env \in CommitEnvs :
       /\ dbTable' = IF env \in {"ok", "error_after_commit"} THEN dbTable \o txn
                      ELSE dbTable
       /\ txn' = IF env = "error_rolled_back" THEN txn ELSE <<>>
       /\ dbConn' = IF env \in {"lost_before_commit", "error_after_commit"}
                     THEN "lost" ELSE dbConn
       /\ insertErr' = (env # "ok")
       /\ dbCaller' = IF env = "ok" THEN dbCaller ELSE "insert"
       /\ pc' = IF env = "ok" THEN "sleep" ELSE "db_connect"
       /\ insertReturned' = IF env = "ok" THEN cycle ELSE insertReturned
       /\ okOutcomes' = IF env = "ok"
                        THEN okOutcomes \cup {MySQLLogger_insert_result(FALSE)}
                        ELSE okOutcomes
  /\ UNCHANGED <<cycle, row, lsConn, mksSer, mksIdx, dbCursor, executeLog,
                 lsCall, lsAbsentRun, mksCall, connFailed, failOutcomes, stopCause,
                 interruptedAt, lsCtor, trace, dbPeak>>
  /\ UNCHANGED <<v2vars, pvars>>

\* time.sleep(POLL_INTERVAL), then back to the top of the loop.
Sleep ==
  /\ pc = "sleep"
  /\ pc' = "loop_top"
  /\ trace' = Append(trace, EvSleep)
  /\ UNCHANGED <<cycle, row, lsConn, mksSer, mksIdx, dbConn, dbCursor, dbCaller, txn,
                 dbTable, executeLog, lsCall, lsAbsentRun, mksCall, connFailed, insertErr,
                 okOutcomes, failOutcomes, insertReturned, stopCause, interruptedAt,
                 lsCtor, dbPeak>>
  /\ UNCHANGED <<v2vars, pvars>>

\* Ctrl+C: Python raises KeyboardInterrupt in the main thread wherever it
\* stands.  No handler inside main() catches it (the drivers catch Exception,
\* the sink catches mysql's Error), so it unwinds to __main__: the except
\* clause logs, the finally clause closes every gauge's open serial port, and
\* the script ends.  main()'s frame is gone: its row, and the records kept of
\* the cycle under way, go with it.
MainPcs ==
  {"ctor_ls218", "ctor_db", "db_connect", "db_backoff", "loop_top", "read_ls218",
   "read_mks", "insert", "commit", "sleep"}
KeyboardInterrupt ==
  /\ pc \in MainPcs
  /\ stopCause' = "KeyboardInterrupt"
  /\ interruptedAt' = pc
  /\ mksSer' = Finally(mksSer)
  /\ pc' = "exited"
  /\ row' = <<>>
  /\ lsCall' = NoLSCall
  /\ mksCall' = NoMKSCall
  /\ connFailed' = {}
  /\ trace' = <<>>
  /\ UNCHANGED <<cycle, lsConn, mksIdx, dbConn, dbCursor, dbCaller, txn,
                 dbTable, executeLog, lsAbsentRun, insertErr,
                 okOutcomes, failOutcomes, insertReturned, lsCtor, dbPeak>>
  /\ UNCHANGED <<v2vars, pvars>>

\* The steps of the program itself, and the operator's Ctrl+C.
MainStep ==
  \/ LS218_init
  \/ MySQLLogger_init
  \/ MySQLLogger_connect
  \/ MySQLLogger_backoff
  \/ LoopTop
  \/ ReadLS218
  \/ ReadMKS
  \/ InsertExecute
  \/ InsertCommit
  \/ Sleep

NextV3 == MainStep \/ KeyboardInterrupt

\* ------------------------------------------------------ slow_control_v2.py
channels_370 == <<1, 2, 3, 4>>
channels_218 == <<1, 2, 5, 6, 7>>
Range(seq) == {seq[i] : i \in DOMAIN seq}
LS370Key(ch) == <<"LS370_ch", ch>>

\* LSInstr.__init__: an unlisted address returns with conn None before the
\* try; "except VisaIOError" catches a failed open or identity query and sets
\* conn None; the ValueError of an identity without the model is not caught
\* and leaves the constructor with conn assigned.
LSInstr_init(env) ==
  LET exc == IF env = "absent" THEN "none" ELSE LS218_connect_try(env)
      raised == Escapes(exc, {"VisaIOError"})
  IN [conn |-> IF env = "ok" \/ raised # "none" THEN "open" ELSE "None",
      raised |-> raised]

\* The two instruments of the script, by model.
Instruments2 == {"370", "218"}

\* What the bus can do during LSInstr(...): an instrument that is not on the
\* bus is not listed; one that is may still fail to open, time out on *IDN?
\* or answer with another model's identity.
InitEnvs2(m) == IF m \in present2 THEN ConnectEnvs \ {"absent"} ELSE {"absent"}

NoCtor2 == [model |-> "none", env |-> "none", conn |-> "None", raised |-> "none"]

\* ls370.conn / ls218.conn
Conn2(m) == IF m = "370" THEN conn370 ELSE conn218

\* What the bus answers to one get_temp query: a text, or a VisaIOError (the
\* only answer of an instrument that is not on the bus).
GetTempEnvs == {"+12.345", "ERR", "VisaIOError"}
GetTempEnvs2(m) == IF m \in present2 THEN GetTempEnvs ELSE {"VisaIOError"}

\* LSInstr.get_temp(channel): None without a connection, float(reading) on
\* success, None on VisaIOError or ValueError; conn is never changed.
LSInstr_get_temp(conn, env) ==
  IF conn # "open" THEN None
  ELSE IF env = "VisaIOError" \/ ~FloatOk(env) THEN None
  ELSE Some(Float(env))

\* "if ls.conn: for ch in channels: val = ls.get_temp(ch);
\*  if val is not None: row[f"{name}_ch{ch}"] = val" for one instrument.
ReadInstrument(r, conn, chans, name, envs) ==
  IF conn # "open" THEN r
  ELSE [k \in {<<name, ch>> : ch \in {c \in chans : LSInstr_get_temp(conn, envs[c]) # None}} |->
          LSInstr_get_temp(conn, envs[k[2]])] @@ r

\* The column list of save_to_db's INSERT statement.
SaveColumns == <<TimestampKey, LSKey(1), LSKey(2), LSKey(5), LSKey(6), LSKey(7)>>

\* save_to_db's data tuple: the timestamp and row.get of the five LS218 columns.
SaveData(r) ==
  <<r[TimestampKey], Get(r, LSKey(1)), Get(r, LSKey(2)), Get(r, LSKey(5)),
    Get(r, LSKey(6)), Get(r, LSKey(7))>>

NotStartedV2 ==
  /\ pc2 = "init370"
  /\ cycle2 = 0
  /\ row2 = <<>>
  /\ conn370 = "None"
  /\ conn218 = "None"
  /\ db2 = "None"
  /\ lastData2 = <<>>
  /\ stopCause2 = "running"
  /\ ctor2 = NoCtor2

\* The script starts with any of the instruments on the bus.
InitV2 == NotStartedV2 /\ present2 \in SUBSET Instruments2

\* ls370 = LSInstr("GPIB0::10::INSTR", model="370").  An exception here is
\* outside any try statement: the script ends.
Init370 ==
  /\ pc2 = "init370"
  /\ \E env \in InitEnvs2("370") :
       LET r == LSInstr_init(env)
       IN /\ conn370' = r.conn
          /\ ctor2' = [model |-> "370", env |-> env, conn |-> r.conn, raised |-> r.raised]
          /\ pc2' = IF r.raised = "none" THEN "init218" ELSE "exited"
          /\ stopCause2' = IF r.raised = "none" THEN stopCause2 ELSE "exception"
  /\ UNCHANGED <<cycle2, row2, conn218, db2, lastData2, present2>>
  /\ UNCHANGED <<v3vars, pvars>>

\* ls218 = LSInstr("GPIB0::12::INSTR", model="218")
Init218 ==
  /\ pc2 = "init218"
  /\ \E env \in InitEnvs2("218") :
       LET r == LSInstr_init(env)
       IN /\ conn218' = r.conn
          /\ ctor2' = [model |-> "218", env |-> env, conn |-> r.conn, raised |-> r.raised]
          /\ pc2' = IF r.raised = "none" THEN "connect_mysql" ELSE "exited"
          /\ stopCause2' = IF r.raised = "none" THEN stopCause2 ELSE "exception"
  /\ UNCHANGED <<cycle2, row2, conn370, db2, lastData2, present2>>
  /\ UNCHANGED <<v3vars, pvars>>

\* db = connect_mysql(); if not db: raise SystemExit; cursor = db.cursor()
ConnectMysql ==
  /\ pc2 = "connect_mysql"
  /\ \E env \in {"ok", "error"} :
       /\ db2' = IF env = "ok" THEN "open" ELSE "None"
       /\ pc2' = IF env = "ok" THEN "loop_top" ELSE "exited"
       /\ stopCause2' = IF env = "ok" THEN stopCause2 ELSE "SystemExit"
  /\ UNCHANGED <<cycle2, row2, conn370, conn218, lastData2, present2, ctor2>>
  /\ UNCHANGED <<v3vars, pvars>>

\* while True: timestamp = datetime.now(); row = {"timestamp": timestamp}
\* The loop has no end: cycles after the MaxCycles-th are not told apart.
NextCycle2(c) == IF c < MaxCycles THEN c + 1 ELSE c
LoopTop2 ==
  /\ pc2 = "loop_top"
  /\ cycle2' = NextCycle2(cycle2)
  /\ row2' = (TimestampKey :> Some(NextCycle2(cycle2)))
  /\ ctor2' = NoCtor2
  /\ lastData2' = <<>>
  /\ pc2' = "read370"
  /\ UNCHANGED <<conn370, conn218, db2, stopCause2, present2>>
  /\ UNCHANGED <<v3vars, pvars>>

\* The LS370 block of the poll loop.
Read370 ==
  /\ pc2 = "read370"
  /\ \E envs \in [Range(channels_370) -> GetTempEnvs2("370")] :
       row2' = ReadInstrument(row2, conn370, Range(channels_370), "LS370_ch", envs)
  /\ pc2' = "read218"
  /\ UNCHANGED <<cycle2, conn370, conn218, db2, lastData2, stopCause2, present2, ctor2>>
  /\ UNCHANGED <<v3vars, pvars>>

\* The LS218 block of the poll loop, then data_log.append, the CSV row and the
\* console line.
Read218 ==
  /\ pc2 = "read218"
  /\ \E envs \in [Range(channels_218) -> GetTempEnvs2("218")] :
       row2' = ReadInstrument(row2, conn218, Range(channels_218), "LS218_ch", envs)
  /\ pc2' = "save_to_db"
  /\ UNCHANGED <<cycle2, conn370, conn218, db2, lastData2, stopCause2, present2, ctor2>>
  /\ UNCHANGED <<v3vars, pvars>>

\* The finally clause of the poll loop: if db.is_connected(): cursor.close();
\* db.close().  Nothing else is closed.
Finally2(db) == IF db = "open" THEN "closed" ELSE db

\* save_to_db(row): execute and commit; on Error, db.rollback(), which raises
\* in its turn when the connection is lost ("lost"): that Error leaves
\* save_to_db and the loop, whose finally clause runs.
SaveToDb ==
  /\ pc2 = "save_to_db"
  /\ lastData2' = SaveData(row2)
  /\ \E env \in {"ok", "error", "lost"} :
       /\ db2' = IF env = "lost" THEN Finally2("lost") ELSE db2
       /\ pc2' = IF env = "lost" THEN "exited" ELSE "sleep"
       /\ stopCause2' = IF env = "lost" THEN "exception" ELSE stopCause2
  /\ UNCHANGED <<cycle2, row2, conn370, conn218, present2, ctor2>>
  /\ UNCHANGED <<v3vars, pvars>>

\* time.sleep(interval)
Sleep2 ==
  /\ pc2 = "sleep"
  /\ pc2' = "loop_top"
  /\ UNCHANGED <<cycle2, row2, conn370, conn218, db2, lastData2, stopCause2,
                 present2, ctor2>>
  /\ UNCHANGED <<v3vars, pvars>>

\* Ctrl+C inside the poll loop's try statement: the except clause prints, the
\* finally clause runs, the script prints its last lines and ends (the row
\* under way is not followed further).
KeyboardInterrupt2 ==
  /\ pc2 \in {"loop_top", "read370", "read218", "save_to_db", "sleep"}
  /\ stopCause2' = "KeyboardInterrupt"
  /\ db2' = Finally2(db2)
  /\ pc2' = "exited"
  /\ row2' = <<>>
  /\ lastData2' = <<>>
  /\ UNCHANGED <<cycle2, conn370, conn218, present2, ctor2>>
  /\ UNCHANGED <<v3vars, pvars>>

\* The laboratory, not the script: an instrument is switched off or
\* unplugged, or switched on again, at any moment of the run.
BusChange2 ==
  /\ pc2 # "exited"
  /\ \E m \in Instruments2 :
       present2' = IF m \in present2 THEN present2 \ {m} ELSE present2 \cup {m}
  /\ UNCHANGED <<pc2, cycle2, row2, conn370, conn218, db2, lastData2, stopCause2, ctor2>>
  /\ UNCHANGED <<v3vars, pvars>>

ScriptStep2 ==
  \/ Init370
  \/ Init218
  \/ ConnectMysql
  \/ LoopTop2
  \/ Read370
  \/ Read218
  \/ SaveToDb
  \/ Sleep2

NextV2 == ScriptStep2 \/ KeyboardInterrupt2 \/ BusChange2

\* --------------------------------------------- get_pressures on one line
PendingParse ==
  [ser |-> "open", value |-> None, queries |-> 0, outcome |-> "none",
   raised |-> "none", connects |-> 0, started |-> "open"]

\* A connected gauge is about to be read, and will answer any line of the
\* alphabet.
InitParse ==
  /\ parseLine \in ParseLines
  /\ parseOut = PendingParse

\* mks.get_pressures() on an open port whose readline() returns parseLine.
GetPressuresOnLine ==
  /\ parseOut.outcome = "none"
  /\ parseOut' = MKS2000_get_pressures("open", "ok", [kind |-> "line", line |-> parseLine])
  /\ UNCHANGED parseLine
  /\ UNCHANGED <<v3vars, v2vars>>

\* ---------------------------------------------------------- specifications
vars == <<v3vars, v2vars, pvars>>

ParseNotRun == parseLine = <<>> /\ parseOut = PendingParse

\* The script that is not the one being run has not been started.
V2NotRun == NotStartedV2 /\ present2 = {}
V3NotRun ==
  /\ InitV3
  /\ \A i \in Gauges : mksSer[i] = "None"

\* slow_control_v3.py runs.
Init == InitV3 /\ V2NotRun /\ ParseNotRun
Next == NextV3
Spec == Init /\ [][Next]_vars

\* The interpreter keeps running the main thread: a step of the program that
\* is possible is eventually taken.  Nothing is assumed of the environment
\* (what the devices and the database answer, whether Ctrl+C is pressed).
FairSpec == Spec /\ WF_vars(MainStep)

\* slow_control_v2.py runs.
Init2 == InitV2 /\ V3NotRun /\ ParseNotRun
Next2 == NextV2
SpecV2 == Init2 /\ [][Next2]_vars

\* The interpreter keeps running the script; nothing is assumed of the
\* instruments, the database or the operator.
FairSpecV2 == SpecV2 /\ WF_vars(ScriptStep2)

\* MKS2000.get_pressures is run on one line of the alphabet.
Init3 == InitParse /\ V3NotRun /\ V2NotRun
Next3 == GetPressuresOnLine
SpecParse == Init3 /\ [][Next3]_vars

\* ================================================================== claims
Count(seq, x) == Cardinality({i \in DOMAIN seq : seq[i] = x})
MaxChannel == CHOOSE m \in ChannelSet : \A c \in ChannelSet : c <= m
InsideInsert ==
  pc \in {"insert", "commit"} \/ (pc \in {"db_connect", "db_backoff"} /\ dbCaller = "insert")

\* C1: whatever the devices did in the cycle, the row main() hands to
\* MySQLLogger.insert has exactly the keys 'timestamp', 'LS218_ch<c>' for every
\* c in CHANNELS and 'MKS<i>_g1' for every gauge; a failed reading is a key
\* whose value is None, never a missing key.
C1_RowKeySetFixed ==
  pc = "insert" =>
    /\ DOMAIN row = RowKeys
    /\ row[TimestampKey] = Some(cycle)
    /\ \A k \in LS218Keys \cup MKSKeys : row[k] = None \/ Len(row[k]) = 1

\* C1 witness: a row is handed to insert in which the LS218 read failed
\* mid-read, one gauge gave a pressure and another gave none.
C1_Witness ==
  /\ pc = "insert"
  /\ lsCall.outcome = "VisaIOError"
  /\ row[LSKey(1)] = None
  /\ row[MKSKey(1)] # None
  /\ row[MKSKey(NumMKS)] = None

\* C2: when a driver's connect check fails in a cycle, all of that driver's
\* channels are None in the cycle's row, no exception leaves the read call
\* (main() is never stopped by an exception), and the cycle's row is still
\* handed to cursor.execute; this in every cycle, however many in a row.
C2_AbsentDeviceYieldsNone ==
  /\ stopCause # "exception"
  /\ \A k \in connFailed : k \in DOMAIN row /\ row[k] = None
  /\ ((InsideInsert /\ pc # "insert") \/ pc = "sleep") => Count(executeLog, cycle) = 1

\* C2 witness: the LS218 and every gauge were absent in two consecutive cycles
\* and the second cycle's insert has returned.
C2_Witness ==
  /\ pc = "sleep"
  /\ lsAbsentRun >= 2
  /\ connFailed = LS218Keys \cup MKSKeys
  /\ insertReturned = cycle
  /\ Count(executeLog, cycle) = 1

\* C3 as stated: after a read call that failed by a timeout or empty response,
\* a malformed or unparseable response, or a transport error, the driver's
\* handle is None and the call sent at most one query.
C3_ReadFailureDisconnects ==
  /\ lsCall.outcome \in {"VisaIOError", "ValueError"}
       => lsCall.conn = "None" /\ lsCall.queries <= 1
  /\ mksCall.outcome \in {"SerialException", "empty", "no_digit", "unparseable"}
       => mksCall.ser = "None" /\ mksCall.queries <= 1

\* C3 amended: LS218.get_all_temps leaves conn None after any failure of its
\* try block (VisaIOError, ValueError); MKS2000.get_pressures leaves ser None
\* only after an exception of the serial port, and after an empty line, a line
\* without a digit-bearing token or an unparseable candidate it returns None
\* with the port still open; no read call sends more than one query.
C3_ReadFailureHandles ==
  /\ lsCall.outcome \in {"VisaIOError", "ValueError"}
       => lsCall.conn = "None" /\ lsCall.temps = AllNone
  /\ mksCall.outcome = "SerialException" => mksCall.ser = "None"
  /\ mksCall.outcome \in {"empty", "no_digit", "unparseable"} => mksCall.ser = "open"
  /\ mksCall.outcome # "ok" => mksCall.value = None
  /\ lsCall.queries <= 1
  /\ mksCall.queries <= 1

\* C3 witness: in one cycle the LS218 answered garbage and a gauge answered a
\* line whose candidate does not parse.
C3_Witness ==
  /\ lsCall.outcome = "ValueError"
  /\ lsCall.queries = 1
  /\ mksCall.outcome = "unparseable"
  /\ mksCall.queries = 1

\* C4: a read call that starts disconnected makes exactly one connect attempt,
\* a call that starts connected makes none, and a call whose connect attempt
\* failed returns absent values without querying the device.
C4_OneConnectAttempt ==
  /\ lsCall.connects <= 1
  /\ mksCall.connects <= 1
  /\ (lsCall.outcome # "none" /\ lsCall.started = "None") => lsCall.connects = 1
  /\ (mksCall.outcome # "none" /\ mksCall.started = "None") => mksCall.connects = 1
  /\ lsCall.outcome = "connect_failed"
       => lsCall.queries = 0 /\ lsCall.temps = AllNone /\ lsCall.conn = "None"
  /\ mksCall.outcome = "connect_failed"
       => mksCall.queries = 0 /\ mksCall.value = None /\ mksCall.ser = "None"

\* C4 witness: the LS218 call started disconnected and its one attempt failed;
\* a gauge call started disconnected, connected and read a pressure.
C4_Witness ==
  /\ lsCall.started = "None"
  /\ lsCall.outcome = "connect_failed"
  /\ mksCall.started = "None"
  /\ mksCall.connects = 1
  /\ mksCall.outcome = "ok"

\* The LS218 answered with parseable values, but too few to reach the highest
\* configured channel.
ShortResponse == lsCall.outcome = "ok" /\ Len(lsCall.tokens) < MaxChannel

C6_AtMostOnce ==
  /\ \A t \in 1..MaxCycles : Count(executeLog, t) <= 1 /\ Count(dbTable, t) <= 1
  /\ \A t \in 1..cycle : (t < cycle \/ insertReturned = cycle) => Count(executeLog, t) = 1
  /\ \A i \in DOMAIN dbTable : Count(executeLog, dbTable[i]) = 1
  /\ pc = "insert" => (txn = <<>> /\ dbConn = "conn" /\ dbCursor = "current")
  /\ pc = "commit" => txn = <<cycle>>
  /\ (pc = "sleep" /\ ~insertErr) => (Count(dbTable, cycle) = 1 /\ txn = <<>>)

\* C6 witness: the insert of cycle 1 failed and was dropped, the insert of
\* cycle 2 committed cycle 2's row alone.
C6_Witness ==
  /\ pc = "sleep"
  /\ cycle = 2
  /\ ~insertErr
  /\ executeLog = <<1, 2>>
  /\ dbTable = <<2>>

\* C7: a failed insert never keeps the loop from going on: once execute or
\* commit has raised, insert returns to main() (which then sleeps and starts
\* the next cycle) or the service is stopped by the operator, also when the
\* database stays unreachable.
C7_SinkNeverBlocks ==
  (InsideInsert /\ insertErr) ~> (pc \in {"sleep", "loop_top", "exited"})

\* C8: what main() observes from db.insert(row) when execute or commit failed
\* differs from what it observes when the row was committed.
C8_InsertFailureSurfaced == okOutcomes \cap failOutcomes = {}

\* C10: Ctrl+C stops the service only between cycles: it never ends the loop
\* during the device reads or inside MySQLLogger.insert, so when the service
\* has stopped every cycle that captured a timestamp has had its insert call
\* return.
C10_StopOnlyBetweenCycles ==
  stopCause = "KeyboardInterrupt" =>
    /\ interruptedAt \notin {"read_ls218", "read_mks", "insert", "commit"}
    /\ ~(interruptedAt \in {"db_connect", "db_backoff"} /\ dbCaller = "insert")
    /\ insertReturned = cycle

\* C9: when the service has been stopped by Ctrl+C and the shutdown handler
\* has run, no transport is open: not the LS218 / LSInstr VISA sessions, not a
\* gauge's serial port, not the database connection; in slow_control_v3 and
\* in slow_control_v2.
C9_AllTransportsReleased ==
  /\ (pc = "exited" /\ stopCause = "KeyboardInterrupt") =>
       /\ lsConn # "open"
       /\ \A i \in Gauges : mksSer[i] # "open"
       /\ dbConn # "conn"
  /\ (pc2 = "exited" /\ stopCause2 = "KeyboardInterrupt") =>
       /\ conn370 # "open"
       /\ conn218 # "open"
       /\ db2 # "open"

\* C11: constructing a bridge driver never fails: when the instrument is
\* absent, cannot be opened, does not answer *IDN? or answers with an identity
\* that lacks the expected model, the constructor returns normally and leaves
\* conn None, the identity mismatch like the absence; for LS218 of
\* slow_control_v3 and for LSInstr of slow_control_v2.
C11_ConstructionNeverFails ==
  /\ lsCtor.env \notin {"none", "ok"} =>
       (lsCtor.raised = "none" /\ lsCtor.conn = "None" /\ stopCause # "exception")
  /\ ctor2.env \notin {"none", "ok"} =>
       (ctor2.raised = "none" /\ ctor2.conn = "None" /\ stopCause2 # "exception")

\* The configured channels' keys of the row of slow_control_v2.
RowKeys2 ==
  {LS370Key(c) : c \in Range(channels_370)} \cup {LSKey(c) : c \in Range(channels_218)}

\* C12: a batch response that parses is read by position: the value at
\* position i (0-based) of the comma-separated response is channel i+1's; the
\* row takes for every configured channel c the value at position c-1 and
\* nothing of the positions of channels that are not configured.
C12_BatchByPosition ==
  (pc \in {"read_mks", "insert"} /\ lsCall.outcome = "ok") =>
    /\ DOMAIN lsCall.temps = 1..Len(lsCall.tokens)
    /\ \A i \in 0..(Len(lsCall.tokens) - 1) :
         lsCall.temps[i + 1] = Some(Float(lsCall.tokens[i + 1]))
    /\ \A c \in ChannelSet :
         c <= Len(lsCall.tokens) => row[LSKey(c)] = Some(Float(lsCall.tokens[(c - 1) + 1]))
    /\ \A k \in DOMAIN row : k[1] = "LS218_ch" => k[2] \in ChannelSet

\* C12 witness: a full eight-value answer is in the row handed to insert:
\* channel 5 carries the fifth value, channel 7 the seventh, and the third,
\* fourth and eighth values are in no column.
C12_Witness ==
  /\ pc = "insert"
  /\ lsCall.outcome = "ok"
  /\ Len(lsCall.tokens) = 8
  /\ row[LSKey(1)] = Some(12345)
  /\ row[LSKey(5)] = Some(4200)
  /\ row[LSKey(7)] = Some(295100)
  /\ \A k \in DOMAIN row : row[k] \notin {Some(-1000), Some(0), Some(3141)}

\* The parsing policy as stated, on a line of tokens: dashes normalised, the
\* first token with a digit is the candidate, the line's leading '-' goes in
\* front of a candidate that has none, and the result is the candidate's
\* numeric value, or None when there is no candidate or it is no number.
PolicyDashed(line) ==
  [i \in DOMAIN line |->
     [j \in DOMAIN line[i] |-> IF line[i][j] \in bad_minus THEN "-" ELSE line[i][j]]]
PolicyCandidates(line) ==
  {i \in DOMAIN line : \E j \in DOMAIN line[i] : line[i][j] \in DigitGlyphs}
PolicyValue(line) ==
  LET l == PolicyDashed(line)
      cs == PolicyCandidates(l)
      k == CHOOSE i \in cs : \A j \in cs : i <= j
      negLine == l[1][1] = "-"
      negCand == l[k][1] = "-"
      digits == IF negCand THEN Tail(l[k]) ELSE l[k]
      sign == IF negLine \/ negCand THEN -1 ELSE 1
  IN IF cs = {} THEN None
     ELSE IF Len(digits) = 1 /\ FloatOk(digits[1]) THEN Some(sign * Float(digits[1]))
     ELSE None

\* C13: on every line of the token alphabet MKS2000.get_pressures raises
\* nothing, keeps the port, and returns what the stated policy gives; in
\* particular '- 3.7e+0 Off' gives -3.7, 'Off 340.2e+0' gives 340.2 and
\* 'Off Off' gives no value.
C13_ParsePolicy ==
  (parseOut.outcome # "none" /\ parseLine # <<>>) =>
    /\ parseOut.raised = "none"
    /\ parseOut.ser = "open"
    /\ parseOut.value = PolicyValue(parseLine)
    /\ parseLine = << <<"-">>, <<"3.7e+0">>, <<"Off">> >> => parseOut.value = Some(-3700)
    /\ parseLine = << <<"Off">>, <<"340.2e+0">> >> => parseOut.value = Some(340200)
    /\ parseLine = << <<"Off">>, <<"Off">> >> => parseOut.value = None

\* C13 witness: a line that opens with a non-ASCII minus standing alone,
\* followed by the number and a status word, has been parsed to -3.7.
C13_Witness ==
  /\ parseLine = << <<"u2212">>, <<"3.7e+0">>, <<"Off">> >>
  /\ parseOut.outcome = "ok"
  /\ parseOut.value = Some(-3700)

\* C14: in slow_control_v2 the row of every cycle, when the reads are done,
\* has a key for every configured channel of both instruments; a channel
\* without a value is present with None, never missing.
C14_RowHasEveryChannelV2 ==
  pc2 \in {"save_to_db", "sleep"} => RowKeys2 \subseteq DOMAIN row2

\* C15: in slow_control_v2 every non-null reading of the cycle's row, of an
\* LS370 channel as well as of an LS218 channel, is passed to the INSERT of
\* save_to_db in the column of its key.
C15_EveryReadingWritten ==
  pc2 = "sleep" =>
    \A k \in DOMAIN row2 :
      row2[k] # None =>
        \E i \in DOMAIN SaveColumns : SaveColumns[i] = k /\ lastData2[i] = row2[k]

\* C16: an LSInstr whose instrument is on the bus for good, whatever happened
\* at construction or since, does not stay without a connection for ever:
\* some later cycle connects (or the script has ended).
C16_ReconnectsOnFailure ==
  \A m \in Instruments2 :
    (<>[](m \in present2)) => <>(pc2 = "exited" \/ Conn2(m) = "open")

\* The calls of a whole cycle, in the order main() is written.
ExpectedOrder ==
  <<EvTimestamp, EvLS218>> \o [i \in 1..NumMKS |-> EvMKS(i)] \o <<EvInsert, EvSleep>>
IsPrefix(a, b) == Len(a) <= Len(b) /\ \A i \in DOMAIN a : a[i] = b[i]

\* C17: the calls of every cycle of main() are, in this order: the timestamp,
\* get_all_temps, get_pressures of every gauge, insert once, sleep.  No device
\* is queried before the timestamp is in the row, insert is not called before
\* every read has put its key in the row, and a cycle starts only when the
\* insert of the cycle before has returned.
C17_CycleOrder ==
  /\ IsPrefix(trace, ExpectedOrder)
  /\ pc = "read_ls218" => (trace = <<EvTimestamp>> /\ row = (TimestampKey :> Some(cycle)))
  /\ pc = "insert" => (DOMAIN row = RowKeys /\ Count(trace, EvInsert) = 0)
  /\ pc \in {"read_ls218", "read_mks", "insert"} => insertReturned = cycle - 1
  /\ pc = "sleep" => (insertReturned = cycle /\ Count(trace, EvInsert) = 1)
  /\ (pc = "loop_top" /\ cycle > 0) => (trace = ExpectedOrder /\ insertReturned = cycle)

\* C17 witness: the second cycle has run through all its calls, its insert
\* having failed and returned, and main() is back at the top of the loop.
C17_Witness ==
  /\ pc = "loop_top"
  /\ cycle = 2
  /\ insertErr
  /\ trace = ExpectedOrder

\* C18: the sink is connected whenever it is handed a row: once the
\* constructor has returned, and at every call of insert, conn is an open
\* connection and cursor is a cursor of that connection, also after failed
\* inserts.
C18_SinkConnected ==
  /\ pc \in {"loop_top", "read_ls218", "read_mks", "insert", "commit", "sleep"} =>
       (dbConn = "conn" /\ dbCursor = "current")
  /\ (pc = "db_connect" /\ dbCaller = "ctor") => cycle = 0

\* C18 witness: insert is called in the second cycle after the first cycle's
\* insert failed and left nothing in the table.
C18_Witness ==
  /\ pc = "insert"
  /\ cycle = 2
  /\ executeLog = <<1>>
  /\ dbTable = <<>>
  /\ dbConn = "conn"
  /\ dbCursor = "current"

\* C19, for the sink: at no moment does MySQLLogger have more than one
\* database connection open.
C19_AtMostOneTransport == dbPeak <= 1

====
